---- MODULE Spec2Model ----
(***************************************************************************)
(* Model of tart-checkpoint (index.js): the checkpointing configuration.   *)
(* One action per turn of the host event loop: the scheduled dispatch      *)
(* callback, the acknowledgement of a logEffect or persistState call, and  *)
(* the calls outside code can make between turns (create, send, and the    *)
(* domain receptionist).  Everything a turn runs synchronously is part of  *)
(* that turn's action.                                                     *)
(***************************************************************************)
EXTENDS Integers, Sequences, FiniteSets, TLC

VARIABLES
    effect,       \* options.effect
    events,       \* options.events: queue of batches of events
    contexts,     \* the actor contexts allocated by create, by identity
    inDispatch,   \* options.inDispatch
    triggers,     \* scheduleDispatch callbacks waiting in setImmediate
    pending,      \* logEffect / persistState calls not yet acknowledged
    acked,        \* history: a logEffect call made on the live Effect object succeeded
    calls,        \* history: the calls made during the latest turn, in order
    processed,    \* history: identities of the events handed to processEvent
    nextId,       \* identity of the next event object allocated by send
    deliveries    \* number of inbound messages the receptionist has delivered

vars == <<effect, events, contexts, inDispatch, triggers, pending, acked,
          calls, processed, nextId, deliveries>>

\* Bounds of the model.
MaxEvents == 2
MaxContexts == 1
MaxDeliveries == 1

\* Behavior descriptors are "B0", "B1" and "Bad", a source text eval rejects.

NoEvent == [id |-> 0, ctx |-> 0]
NoBeh == [kind |-> "undefined", id |-> "undefined"]

\* A value is truthy in the sense of a JavaScript `if`.
Truthy(x) == x \notin {"undefined", "falsy"}

----------------------------------------------------------------------------
\* Pure helpers of index.js

newEffect ==
    [event |-> NoEvent, exception |-> "undefined", behavior |-> NoBeh,
     became |-> NoBeh, sent |-> <<>>, created |-> <<>>]

effectIsEmpty_NeverEmpty(e) ==
    IF e.event # NoEvent \/ Truthy(e.exception)
       \/ Len(e.sent) >= 0 \/ Len(e.created) > 0
    THEN FALSE ELSE TRUE

effectIsEmpty(e) ==
    IF e.event # NoEvent \/ Truthy(e.exception)
       \/ Len(e.sent) > 0 \/ Len(e.created) > 0
    THEN FALSE ELSE TRUE

effectIsError(e) == IF Truthy(e.exception) THEN TRUE ELSE FALSE

\* eval('(' + source + ')'): a Function for a valid source; the string
\* concatenation turns a Function back into its source first.
compileBehavior(b) == [kind |-> "function", id |-> b.id]
compileThrows(b) == b.id = "Bad"
toString(b) == [kind |-> "source", id |-> b.id]

\* dequeueEvent without its while loop: gives up at an exhausted head batch.
dequeueEvent_HeadOnly(q) ==
    IF Len(q) = 0 \/ Len(q[1]) = 0 THEN [event |-> NoEvent, events |-> q]
    ELSE [event |-> Head(q[1]), events |-> [q EXCEPT ![1] = Tail(@)]]

RECURSIVE dequeueEvent(_)
dequeueEvent(q) ==
    IF Len(q) = 0 THEN [event |-> NoEvent, events |-> q]
    ELSE IF Len(q[1]) > 0
         THEN [event |-> Head(q[1]), events |-> [q EXCEPT ![1] = Tail(@)]]
         ELSE dequeueEvent(Tail(q))

RECURSIVE Flatten(_)
Flatten(q) == IF q = <<>> THEN <<>> ELSE Head(q) \o Flatten(Tail(q))

Ids(s) == {s[i].id : i \in DOMAIN s}

----------------------------------------------------------------------------
\* The state the operations of one turn thread through.

State ==
    [effect |-> effect, events |-> events, contexts |-> contexts,
     inDispatch |-> inDispatch, triggers |-> triggers, pending |-> pending,
     acked |-> acked, calls |-> <<>>, processed |-> processed,
     nextId |-> nextId, deliveries |-> deliveries]

Becomes(S) ==
    /\ effect' = S.effect
    /\ events' = S.events
    /\ contexts' = S.contexts
    /\ inDispatch' = S.inDispatch
    /\ triggers' = S.triggers
    /\ pending' = S.pending
    /\ acked' = S.acked
    /\ calls' = S.calls
    /\ processed' = S.processed
    /\ nextId' = S.nextId
    /\ deliveries' = S.deliveries

Call(S, op, info) == [S EXCEPT !.calls = Append(@, <<op, info>>)]

errorHandler(S, error) == Call(S, "errorHandler", error)

scheduleDispatch(S) ==
    Call([S EXCEPT !.triggers = @ + 1], "scheduleDispatch", "")

\* The callback without its first statement: inDispatch stays set.
dispatchDone_KeepFlag(S, error) ==
    errorHandler(S, error)

\* The callback scheduleDispatch hands to dispatchEvent.
dispatchDone(S, error) ==
    errorHandler([S EXCEPT !.inDispatch = FALSE], error)

logEffect(S, phase) ==
    Call([S EXCEPT !.pending = Append(@,
            [kind |-> "logEffect", phase |-> phase, live |-> TRUE,
             json |-> S.effect])],
         "logEffect", phase)

persistState(S, phase) ==
    Call([S EXCEPT !.pending = Append(@,
            [kind |-> "persistState", phase |-> phase, live |-> TRUE,
             json |-> S.effect])],
         "persistState", phase)

enqueueEvents(S) ==
    Call([S EXCEPT !.events = Append(@, S.effect.sent)],
         "enqueueEvents", IF S.acked THEN "acked" ELSE "unacked")

\* options.effect = options.newEffect(): a fresh object replaces the live
\* Effect, so the calls still outstanding refer to an object no longer live.
resetEffect_Keep(S) == Call(S, "newEffect", "")

resetEffect(S) ==
    Call([S EXCEPT !.effect = newEffect, !.acked = FALSE,
                   !.pending = [i \in DOMAIN @ |-> [@[i] EXCEPT !.live = FALSE]]],
         "newEffect", "")

\* The capability returned by create: function send(message).
send(S, ctx) ==
    [S EXCEPT !.effect.sent = Append(@, [id |-> S.nextId, ctx |-> ctx]),
              !.nextId = @ + 1]

\* function create(behavior, state)
create(S, b) ==
    [S EXCEPT !.contexts = Append(@, [behavior |-> toString([kind |-> "function", id |-> b]),
                                      state |-> 0]),
              !.effect.created = Append(@, Len(S.contexts) + 1)]

\* What one execution of an actor behavior does, in order: it may change
\* this.state, create an actor, send a message to itself, replace
\* this.behavior, and finally throw.
Handlers(S) ==
    [mutate : BOOLEAN,
     creates : IF Len(S.contexts) < MaxContexts THEN {0, 1} ELSE {0},
     sends : IF S.nextId <= MaxEvents THEN {0, 1} ELSE {0},
     become : {"none", "B1"},
     raise : {"none", "Error", "falsy"}]

\* The handler's choices matter only in a turn that can reach processEvent:
\* one that completes a pre-checkpoint while the Queue or the batch about to
\* join it holds an event.
Idle == [mutate |-> FALSE, creates |-> 0, sends |-> 0, become |-> "none", raise |-> "none"]

HandlersFor(S, phase) ==
    IF phase = "pre" /\ (Flatten(S.events) # <<>> \/ S.effect.sent # <<>>)
    THEN Handlers(S) ELSE {Idle}

runHandler(S, ctx, h) ==
    LET S1 == IF h.mutate THEN [S EXCEPT !.contexts[ctx].state = 1 - @] ELSE S
        S2 == IF h.creates = 1 THEN create(S1, "B0") ELSE S1
        S3 == IF h.sends = 1 THEN send(S2, ctx) ELSE S2
    IN IF h.become = "none" THEN S3
       ELSE [S3 EXCEPT !.contexts[ctx].behavior = [kind |-> "function", id |-> h.become]]

\* processEvent without its last assignment (the context keeps the Function).
processEvent_KeepFunction(S, event, h) ==
    LET ctx == event.ctx
        b == S.contexts[ctx].behavior
        S1 == Call([S EXCEPT !.effect.event = event,
                             !.processed = Append(@, event.id)],
                   "processEvent", "")
        S2 == [S1 EXCEPT !.effect.behavior = b]
    IN IF compileThrows(b) THEN [S2 EXCEPT !.effect.exception = "Error"]
       ELSE LET S3 == [S2 EXCEPT !.contexts[ctx].behavior = compileBehavior(b)]
                S4 == runHandler(S3, ctx, h)
            IN IF h.raise # "none"
               THEN [S4 EXCEPT !.effect.exception = h.raise]
               ELSE [S4 EXCEPT !.effect.became = toString(S4.contexts[ctx].behavior)]

processEvent(S, event, h) ==
    LET ctx == event.ctx
        b == S.contexts[ctx].behavior
        S1 == Call([S EXCEPT !.effect.event = event,
                             !.processed = Append(@, event.id)],
                   "processEvent", "")
        S2 == [S1 EXCEPT !.effect.behavior = b]
    IN IF compileThrows(b) THEN [S2 EXCEPT !.effect.exception = "Error"]
       ELSE LET S3 == [S2 EXCEPT !.contexts[ctx].behavior = compileBehavior(b)]
                S4 == runHandler(S3, ctx, h)
            IN IF h.raise # "none"
               THEN [S4 EXCEPT !.effect.exception = h.raise]
               ELSE LET became == toString(S4.contexts[ctx].behavior)
                    IN [S4 EXCEPT !.effect.became = became,
                                  !.contexts[ctx].behavior = became]

----------------------------------------------------------------------------
\* saveCheckpoint and dispatchEvent, in continuation-passing style as in the
\* source.  phase tells which of dispatchEvent's two saveCheckpoint calls a
\* continuation belongs to; h is what the handler will do if this turn
\* reaches processEvent.

RECURSIVE checkpointDone(_, _, _, _)

saveCheckpoint(S, phase, h) ==
    IF effectIsEmpty(S.effect) THEN checkpointDone(S, phase, "false", h)
    ELSE logEffect(S, phase)

\* function (error) passed to options.logEffect
logEffectDone_Reset(S, phase, error, h) ==
    IF error # "false" THEN checkpointDone(resetEffect(S), phase, error, h)
    ELSE IF effectIsError(S.effect)
         THEN checkpointDone(resetEffect(S), phase, "false", h)
         ELSE persistState(enqueueEvents(S), phase)

logEffectDone(S, phase, error, h) ==
    IF error # "false" THEN checkpointDone(S, phase, error, h)
    ELSE IF effectIsError(S.effect)
         THEN checkpointDone(resetEffect(S), phase, "false", h)
         ELSE persistState(enqueueEvents(S), phase)

\* function (error) passed to options.persistState
persistStateDone(S, phase, error, h) ==
    IF error # "false" THEN checkpointDone(S, phase, error, h)
    ELSE checkpointDone(resetEffect(S), phase, "false", h)

\* The two callbacks with a loop that never rests: the next cycle is requested
\* even when dequeueEvent found nothing.
checkpointDone_AlwaysReschedule(S, phase, error, h) ==
    IF phase = "pre"
    THEN IF error # "false" THEN dispatchDone(S, error)
         ELSE LET d == dequeueEvent(S.events)
                  S1 == Call([S EXCEPT !.events = d.events], "dequeueEvent", "")
              IN IF d.event = NoEvent
                 THEN dispatchDone(scheduleDispatch(S1), "false")
                 ELSE saveCheckpoint(processEvent(S1, d.event, h), "post", h)
    ELSE IF error # "false" THEN dispatchDone(S, error)
         ELSE dispatchDone(scheduleDispatch(S), "false")

\* The two callbacks with an internal retry: a failed checkpoint requests the
\* next cycle itself.
checkpointDone_Reschedule(S, phase, error, h) ==
    IF phase = "pre"
    THEN IF error # "false" THEN dispatchDone(scheduleDispatch(S), error)
         ELSE LET d == dequeueEvent(S.events)
                  S1 == Call([S EXCEPT !.events = d.events], "dequeueEvent", "")
              IN IF d.event = NoEvent THEN dispatchDone(S1, "false")
                 ELSE saveCheckpoint(processEvent(S1, d.event, h), "post", h)
    ELSE IF error # "false" THEN dispatchDone(scheduleDispatch(S), error)
         ELSE dispatchDone(scheduleDispatch(S), "false")

\* The two function (error) callbacks dispatchEvent passes to saveCheckpoint.
checkpointDone(S, phase, error, h) ==
    IF phase = "pre"
    THEN IF error # "false" THEN dispatchDone(S, error)
         ELSE LET d == dequeueEvent(S.events)
                  S1 == Call([S EXCEPT !.events = d.events], "dequeueEvent", "")
              IN IF d.event = NoEvent THEN dispatchDone(S1, "false")
                 ELSE saveCheckpoint(processEvent(S1, d.event, h), "post", h)
    ELSE IF error # "false" THEN dispatchDone(S, error)
         ELSE dispatchDone(scheduleDispatch(S), "false")

dispatchEvent(S, h) == saveCheckpoint(S, "pre", h)

\* The function scheduleDispatch hands to setImmediate.
scheduledDispatch(S, h) ==
    LET S0 == Call(S, "trigger", "")
        S1 == IF S0.inDispatch THEN errorHandler(S0, "reentry") ELSE S0
    IN dispatchEvent([S1 EXCEPT !.inDispatch = TRUE], h)

RemoveAt(s, i) == [j \in 1..(Len(s) - 1) |-> IF j < i THEN s[j] ELSE s[j + 1]]

----------------------------------------------------------------------------
Init ==
    /\ effect = newEffect
    /\ events = <<>>
    /\ contexts = <<>>
    /\ inDispatch = FALSE
    /\ triggers = 1
    /\ pending = <<>>
    /\ acked = FALSE
    /\ calls = <<>>
    /\ processed = <<>>
    /\ nextId = 1
    /\ deliveries = 0

\* A scheduled dispatch fires.
Dispatch ==
    /\ triggers > 0
    /\ \E h \in HandlersFor(State, "pre") :
         Becomes(scheduledDispatch([State EXCEPT !.triggers = @ - 1], h))

\* The log acknowledges a logEffect call, with or without an error.
LogEffectAck ==
    \E i \in DOMAIN pending, error \in {"false", "error"} :
      /\ pending[i].kind = "logEffect"
      /\ LET S0 == [State EXCEPT !.pending = RemoveAt(@, i),
                                 !.acked = @ \/ (error = "false" /\ pending[i].live)]
             S1 == Call(S0, "logEffectAck", error)
         IN \E h \in HandlersFor(State, pending[i].phase) :
              Becomes(logEffectDone(S1, pending[i].phase, error, h))

\* Storage acknowledges a persistState call, with or without an error.
PersistStateAck ==
    \E i \in DOMAIN pending, error \in {"false", "error"} :
      /\ pending[i].kind = "persistState"
      /\ LET S0 == [State EXCEPT !.pending = RemoveAt(@, i)]
             S1 == Call(S0, "persistStateAck", error)
         IN \E h \in HandlersFor(State, pending[i].phase) :
              Becomes(persistStateDone(S1, pending[i].phase, error, h))

\* Outside code creates an actor through the exposed sponsor.
Create ==
    /\ Len(contexts) < MaxContexts
    /\ \E b \in {"B0", "Bad"} : Becomes(create(Call(State, "create", ""), b))

\* Outside code sends through a capability it holds.
Send ==
    /\ nextId <= MaxEvents
    /\ \E c \in DOMAIN contexts : Becomes(send(Call(State, "send", ""), c))

\* An inbound message reaches the domain's receptionist.
checkpointReceptionist ==
    /\ nextId <= MaxEvents
    /\ deliveries < MaxDeliveries
    /\ \E c \in DOMAIN contexts :
         Becomes(scheduleDispatch(send(
             Call([State EXCEPT !.deliveries = @ + 1], "receptionist", ""), c)))

Next ==
    \/ Dispatch
    \/ LogEffectAck
    \/ PersistStateAck
    \/ Create
    \/ Send
    \/ checkpointReceptionist

Spec == Init /\ [][Next]_vars

\* The runs in which every scheduled dispatch fires while no cycle is active:
\* the acknowledgements of the cycle under way arrive before the next
\* setImmediate callback runs.
DispatchIdle == ~inDispatch /\ Dispatch

NextSerial ==
    \/ DispatchIdle
    \/ LogEffectAck
    \/ PersistStateAck
    \/ Create
    \/ Send
    \/ checkpointReceptionist

SpecSerial == Init /\ [][NextSerial]_vars

\* The runs of the happy path: outside code creates and sends only before the
\* primed dispatch fires, no inbound message arrives, and the log and the
\* storage acknowledge every call without error.  Callbacks handed to
\* setImmediate and calls handed to the log or the storage are eventually
\* run or acknowledged.
AtStartup == triggers = 1 /\ pending = <<>> /\ processed = <<>> /\ ~inDispatch

CreateAtStartup == AtStartup /\ Create

SendAtStartup == AtStartup /\ Send

LogEffectOk == LogEffectAck /\ calls'[1] = <<"logEffectAck", "false">>

PersistStateOk == PersistStateAck /\ calls'[1] = <<"persistStateAck", "false">>

NextQuiet ==
    \/ Dispatch
    \/ LogEffectOk
    \/ PersistStateOk
    \/ CreateAtStartup
    \/ SendAtStartup

SpecQuiet ==
    Init /\ [][NextQuiet]_vars
         /\ WF_vars(Dispatch) /\ WF_vars(LogEffectOk) /\ WF_vars(PersistStateOk)

----------------------------------------------------------------------------
\* Vocabulary of the properties

In(cs, op, info) == \E i \in DOMAIN cs : cs[i] = <<op, info>>
Made(cs, op) == \E i \in DOMAIN cs : cs[i][1] = op
Turn(cs, op, info) == cs # <<>> /\ cs[1] = <<op, info>>
EndsWith(cs, op, info) == cs # <<>> /\ cs[Len(cs)] = <<op, info>>
Range(s) == {s[i] : i \in DOMAIN s}
NoDuplicates(s) == \A i, j \in DOMAIN s : i # j => s[i] # s[j]

----------------------------------------------------------------------------
\* C1: a scheduled dispatch that fires while a cycle is active reports the
\* re-entrancy fault and does nothing else, so at most one cycle (one
\* outstanding logEffect or persistState call) is ever active.
C1_ReentryOnlyReported ==
    /\ Len(pending) <= 1
    /\ In(calls, "errorHandler", "reentry") =>
         calls = << <<"trigger", "">>, <<"errorHandler", "reentry">> >>

\* C2: no event is handed to processEvent twice, also when a failed
\* checkpoint is retried by a later cycle.
C2_ProcessedAtMostOnce == NoDuplicates(processed)

\* C3: the events leave the Queue once each and in the order they were sent
\* (identities grow in send order, batches follow checkpoint order).
C3_DequeuedOnceInOrder ==
    \A i, j \in DOMAIN processed : i < j => processed[i] < processed[j]

\* C4: an Effect is applied exactly once or not at all: its sent events
\* join the Queue at most once, and the checkpoint of an error Effect
\* applies nothing.
C4_AppliedExactlyOnce ==
    [][ /\ NoDuplicates(Flatten(events'))
        /\ (Turn(calls', "logEffectAck", "false") /\ effectIsError(effect)) =>
              (~Made(calls', "enqueueEvents") /\ ~Made(calls', "persistState"))
      ]_vars

\* C5: enqueueEvents and persistState run only on an Effect whose own
\* logEffect call has been acknowledged, and never on an error Effect.
C5_ApplyOnlyAfterLogAck ==
    /\ ~In(calls, "enqueueEvents", "unacked")
    /\ \A i \in DOMAIN calls :
         calls[i][1] = "persistState" => (i > 1 /\ calls[i - 1][1] = "enqueueEvents")

\* C6: when a cycle ends and reports no error, the Effect is empty.
C6_EffectEmptyAtCycleEnd ==
    EndsWith(calls, "errorHandler", "false") => effectIsEmpty(effect)

C6_Witness ==
    /\ EndsWith(calls, "errorHandler", "false")
    /\ Made(calls, "newEffect")
    /\ Made(calls, "scheduleDispatch")

\* C7: a failed logEffect or persistState ends the cycle with the error
\* reported and nothing else done, the Effect exactly as it was; and a
\* pre-checkpoint that finds an Effect logs that very Effect.
C7_FailureRetainsEffect ==
    [][ /\ (Turn(calls', "logEffectAck", "error") \/ Turn(calls', "persistStateAck", "error")) =>
              /\ effect' = effect
              /\ Len(calls') = 2
              /\ calls'[2] = <<"errorHandler", "error">>
              /\ ~inDispatch'
              /\ triggers' = triggers
              /\ Len(pending') = Len(pending) - 1
        /\ (Turn(calls', "trigger", "") /\ ~effectIsEmpty(effect)) =>
              /\ effect' = effect
              /\ EndsWith(calls', "logEffect", "pre")
              /\ pending'[Len(pending')].json = effect
      ]_vars

C7_Witness ==
    /\ Turn(calls, "persistStateAck", "error")
    /\ effect.event # NoEvent
    /\ effect.sent # <<>>
    /\ effect.became # NoBeh

\* C8: after the handler of an event raised an error (or its behavior did
\* not compile), the acting context has the behavior descriptor and the
\* state it had before the event was processed.
C8_FailureLeavesContext ==
    [][ (Made(calls', "processEvent") /\ effectIsError(effect')) =>
           contexts'[effect'.event.ctx] = contexts[effect'.event.ctx]
      ]_vars

\* C9: when a checkpoint replaces a non-error Effect by a fresh one, every
\* event in its sent list is in the Queue (or has already left it).
C9_ResetKeepsUnqueuedSends ==
    [][ (Made(calls', "newEffect") /\ ~effectIsError(effect)) =>
           Ids(effect.sent) \subseteq (Ids(Flatten(events')) \cup Range(processed'))
      ]_vars

\* C10: a dispatch that finds the Effect empty goes straight to the dequeue
\* without logging, enqueueing or persisting; with the Queue empty as well
\* it ends there, reporting no error, with nothing processed or scheduled.
C10_EmptyCheckpointIsNoOp ==
    [][ (Turn(calls', "trigger", "") /\ effect = newEffect) =>
           /\ \A i \in DOMAIN calls' :
                calls'[i][1] = "dequeueEvent" =>
                   \A j \in 1..(i - 1) : calls'[j][1] \in {"trigger", "errorHandler"}
           /\ Made(calls', "dequeueEvent")
           /\ Flatten(events) = <<>> =>
                /\ effect' = effect
                /\ events' = <<>>
                /\ pending' = pending
                /\ processed' = processed
                /\ triggers' = triggers - 1
                /\ EndsWith(calls', "errorHandler", "false")
                /\ \A i \in DOMAIN calls' :
                     calls'[i][1] \in {"trigger", "errorHandler", "dequeueEvent"}
      ]_vars

C10_Witness ==
    calls = << <<"trigger", "">>, <<"dequeueEvent", "">>, <<"errorHandler", "false">> >>

\* C11: on the happy path a dispatch that finds an Effect logs it as it is
\* (the created contexts included); the pre-checkpoint's completion dequeues
\* the oldest event M and processes it against the behavior the context had;
\* when the handler returns, the Effect logged by the post-checkpoint holds
\* what it sent and the descriptor it became, which is also the context's
\* behavior; the log acknowledgement appends exactly the sent list to the
\* Queue; and the storage acknowledgement leaves the Effect empty, the
\* context's behavior as it became and, when every earlier event has been
\* processed, exactly the sent events in the Queue.
C11_HappyPath ==
    [][ /\ (Turn(calls', "trigger", "") /\ effect # newEffect) =>
              /\ pending' = << [kind |-> "logEffect", phase |-> "pre",
                                live |-> TRUE, json |-> effect] >>
              /\ effect' = effect
        /\ (Made(calls', "processEvent") /\ effect'.exception = "undefined") =>
              LET M == Head(Flatten(events))
              IN /\ effect'.event = M
                 /\ Flatten(events') = Tail(Flatten(events))
                 /\ effect'.behavior = contexts[M.ctx].behavior
                 /\ effect'.became.kind = "source"
                 /\ contexts'[M.ctx].behavior = effect'.became
                 /\ pending' = << [kind |-> "logEffect", phase |-> "post",
                                   live |-> TRUE, json |-> effect'] >>
        /\ (Turn(calls', "logEffectAck", "false") /\ pending[1].phase = "post"
              /\ effect.exception = "undefined") =>
              /\ pending[1].json = effect
              /\ events' = Append(events, effect.sent)
              /\ effect' = effect
              /\ contexts' = contexts
        /\ (Turn(calls', "persistStateAck", "false") /\ pending[1].phase = "post"
              /\ effect.exception = "undefined") =>
              /\ effect' = newEffect
              /\ contexts' = contexts
              /\ contexts'[effect.event.ctx].behavior = effect.became
              /\ pending' = <<>>
              /\ triggers' = 1
              /\ (Range(processed) \cup Ids(effect.sent) = 1..(nextId - 1)) =>
                    Flatten(events') = effect.sent
      ]_vars

\* Scenario B itself: M (event 1) has been processed by the context created
\* with B0, the handler sent M2 (event 2) and became B1, and the
\* post-checkpoint has just completed.
C11_Witness ==
    /\ calls = << <<"persistStateAck", "false">>, <<"newEffect", "">>,
                  <<"scheduleDispatch", "">>, <<"errorHandler", "false">> >>
    /\ processed = <<1>>
    /\ events = << <<>>, <<[id |-> 2, ctx |-> 1]>> >>
    /\ contexts[1].behavior = [kind |-> "source", id |-> "B1"]
    /\ effect = newEffect

\* C12: the Queue is appended to only by a checkpoint that completes
\* successfully on a non-error Effect; a checkpoint that ends with an error
\* leaves the Queue as it was. Stated on the state in which persistState has
\* just reported a failure: event ids are unique, so none of the events the
\* retained Effect still lists as sent may be in the Queue.
C12_FailedCheckpointKeepsQueue ==
    Turn(calls, "persistStateAck", "error")
        => Ids(effect.sent) \cap Ids(Flatten(events)) = {}

\* C13: an event is enqueued only if it was in the sent list of the Effect at
\* the moment that Effect was passed to the logEffect call now acknowledged:
\* the batch appended on a successful logEffect callback is the sent list of
\* the JSON written by an outstanding logEffect call.
C13_EnqueuedBatchWasLogged ==
    [][(Turn(calls', "logEffectAck", "false") /\ Made(calls', "enqueueEvents"))
        => \E i \in DOMAIN pending :
              /\ pending[i].kind = "logEffect"
              /\ events' = Append(events, pending[i].json.sent)]_vars

\* C14: no two events are in flight at once: the events whose consequences
\* are held by the Effect or by a checkpoint operation still outstanding are
\* at most one.
C14_OneEventInFlight ==
    Cardinality(({pending[i].json.event : i \in DOMAIN pending}
                    \cup {effect.event}) \ {NoEvent}) <= 1

\* C15: dequeueEvent returns the oldest enqueued event not yet dequeued, the
\* head of the first non-empty batch, and drops the exhausted batches before
\* it; it returns none exactly when no batch holds an event, and then leaves
\* a Queue without batches.
C15_DequeueOldest ==
    [][Made(calls', "dequeueEvent")
        => IF Flatten(events) = <<>>
           THEN ~Made(calls', "processEvent") /\ events' = <<>>
           ELSE /\ Made(calls', "processEvent")
                /\ processed' = Append(processed, Head(Flatten(events)).id)
                /\ effect'.event = Head(Flatten(events))
                /\ Flatten(events') = Tail(Flatten(events))
                /\ \E k \in DOMAIN events :
                      /\ \A j \in 1..(k - 1) : events[j] = <<>>
                      /\ events[k] # <<>>
                      /\ events' = [SubSeq(events, k, Len(events))
                                        EXCEPT ![1] = Tail(@)]]_vars

\* Event 2 has just been dequeued from the second batch: it is alone in the
\* Queue's history with event 1, whose exhausted batch was dropped on the way.
C15_Witness ==
    /\ Made(calls, "dequeueEvent") /\ Made(calls, "processEvent")
    /\ processed = <<1, 2>>
    /\ effect.event.id = 2
    /\ events = << <<>> >>

\* C16: a cycle whose checkpoint fails ends there: the turn in which logEffect
\* or persistState reports an error only reports that error; it dequeues and
\* processes no event, starts no further checkpoint operation and requests no
\* next cycle, so nothing retries until a trigger comes from outside.
C16_FailureEndsCycle ==
    [][(Turn(calls', "logEffectAck", "error")
            \/ Turn(calls', "persistStateAck", "error"))
        => /\ calls' = <<calls'[1], <<"errorHandler", "error">> >>
           /\ events' = events
           /\ processed' = processed
           /\ triggers' = triggers
           /\ Len(pending') = Len(pending) - 1]_vars

\* A pre-checkpoint (the Effect stems from no event) has just failed while
\* the Queue held an event: the event stays queued, no operation is
\* outstanding and no cycle is requested.
C16_Witness ==
    /\ Turn(calls, "logEffectAck", "error")
    /\ effect.event = NoEvent
    /\ Flatten(events) # <<>>
    /\ triggers = 0
    /\ pending = <<>>

\* C17: a processing failure is a successful cycle: once the handler of the
\* dequeued event has raised and the post-checkpoint's logEffect has
\* succeeded, the cycle reports no error to the error handler.
C17_RaisingHandlerCycleSucceeds ==
    [][(/\ effect.event # NoEvent
        /\ effect.exception # "undefined"
        /\ pending # <<>>
        /\ pending[1].phase = "post"
        /\ (pending[1].kind = "logEffect"
               => Turn(calls', "logEffectAck", "false")))
        => ~In(calls', "errorHandler", "error")]_vars

\* C18: the loop's own reschedule never causes a re-entrancy fault: as long as
\* no trigger has come from outside, a requested cycle is outstanding only
\* while no cycle is active (the requesting cycle has cleared inDispatch in
\* the turn of its request), there is at most one, and the re-entry error is
\* never reported.
C18_OwnRescheduleNeverReenters ==
    deliveries = 0
        => /\ ~In(calls, "errorHandler", "reentry")
           /\ triggers <= 1
           /\ (triggers > 0 => ~inDispatch)

\* The end of a post-checkpoint in a run without outside triggers: the cycle
\* has requested the next one and cleared inDispatch in the same turn.
C18_Witness ==
    /\ deliveries = 0
    /\ Turn(calls, "persistStateAck", "false")
    /\ Made(calls, "scheduleDispatch")
    /\ processed # <<>>
    /\ triggers = 1
    /\ ~inDispatch

\* C19: the guard flag tracks cycle activity exactly: between turns a cycle
\* that has started and not yet invoked its completion callback is one that
\* waits on an outstanding logEffect or persistState, so inDispatch is true
\* exactly when such an operation is outstanding.
C19_FlagTracksActivity == inDispatch <=> pending # <<>>

\* C20: quiescence: without durability failures and without outside calls
\* after startup the loop eventually stops rescheduling itself for good (no
\* cycle requested, none active); and a cycle ends without a reschedule and
\* without an error only in a turn in which dequeueEvent found nothing, when
\* both the Effect and the Queue are empty.
C20_Quiescence ==
    /\ <>[](triggers = 0 /\ pending = <<>> /\ ~inDispatch)
    /\ []((EndsWith(calls, "errorHandler", "false")
              /\ ~Made(calls, "scheduleDispatch"))
            => /\ Made(calls, "dequeueEvent")
               /\ ~Made(calls, "processEvent")
               /\ effect = newEffect
               /\ events = <<>>)

\* The loop at rest after it processed two events: the last cycle found the
\* Queue empty and requested nothing.
C20_Witness ==
    /\ calls = << <<"trigger", "">>, <<"dequeueEvent", "">>,
                  <<"errorHandler", "false">> >>
    /\ Len(processed) = 2
    /\ triggers = 0 /\ pending = <<>> /\ ~inDispatch
    /\ effect = newEffect /\ events = <<>>

====
